---- MODULE Spec2Model ----
(***************************************************************************)
(* Model of aslib/dbg.py: class Dbg, a leveled debug/log line writer.      *)
(*                                                                         *)
(* Python values are modelled as follows.  An optional value is a sequence *)
(* of length 0 (None) or 1 (the value).  A text that the code only copies  *)
(* is a TLA+ string; the comma-delimited function filter, which the code   *)
(* splits, is a sequence of one-character strings.  A file path is the     *)
(* sequence of its components.  A caller frame is a record                 *)
(* [file, func, ln, depth] where depth counts the frames of the caller's   *)
(* stack (1 = module body).                                                *)
(***************************************************************************)
EXTENDS Integers, Sequences, FiniteSets, TLC

VARIABLES
  obj,      \* obj[i]: <<>> before construction, else <<attributes of instance i>>
  dmsgs,    \* the list object bound to the class attribute Dbg.dmsgs
  fps,      \* file objects opened so far: [state, by (instance or "caller"), name]
  stdout,   \* strings written to sys.stdout by the last call
  logged,   \* [fp, line] writes made to log file objects by the last call
  last      \* the last call: method, instance, arguments, exception raised

vars == <<obj, dmsgs, fps, stdout, logged, last>>

None == <<>>
Some(v) == <<v>>

----------------------------------------------------------------------------
(* Bounds of the model. *)

MaxMsgs == 2        \* longest message list explored
MaxFiles == 2       \* most file objects opened in one behaviour

----------------------------------------------------------------------------
(* Class-level constants and defaults. *)

NONE == -1
ANY == -1
OUT == 0
ERR == 1
WRN == 2
INF == 3
DBG == 4
DB2 == 5
IDB == 6
LOG == 7

\* the dict Dbg.levels, in insertion order
levels ==
  << <<"none", NONE>>, <<"any", ANY>>, <<"out", OUT>>, <<"err", ERR>>,
     <<"wrn", WRN>>, <<"inf", INF>>, <<"dbg", DBG>>, <<"db2", DB2>>,
     <<"idb", IDB>>, <<"log", LOG>> >>

lvl_dflt == "err"
trc_dflt == FALSE

DateFormatDflt == "%Y-%m-%d %H:%M:%S.%f"

\* the class body's attributes, which an instance reads until it assigns its own
ClassAttrs ==
  [ dlvl |-> ERR, trc |-> FALSE, log_fp |-> None, log_file |-> None,
    log_only |-> FALSE, force_out |-> TRUE, date_n_time |-> TRUE,
    file_n_line |-> TRUE, hdr_date_format |-> DateFormatDflt,
    file_func_line |-> FALSE, fnm |-> None, func |-> None,
    ln_beg |-> None, ln_end |-> None ]

----------------------------------------------------------------------------
(* Helpers that model library calls. *)

\* key in levels: the test behind levels[k] raising KeyError
HasLevel(k) == \E n \in 1..Len(levels) : levels[n][1] = k

\* levels[k]
LevelValue(k) == levels[CHOOSE n \in 1..Len(levels) : levels[n][1] = k][2]

\* list(levels.values()).index(v) raising ValueError
HasLevelValue(v) == \E n \in 1..Len(levels) : levels[n][2] = v

\* list(levels.keys())[list(levels.values()).index(v)]: the first key of value v
LevelName(v) ==
  levels[CHOOSE n \in 1..Len(levels) :
           /\ levels[n][2] = v
           /\ \A m \in 1..(n - 1) : levels[m][2] # v][1]

\* os.path.basename(os.path.realpath(f)) of a frame's __file__, "<nofile>" without one
FileName(fr) == IF fr.file = None THEN "<nofile>" ELSE fr.file[1][Len(fr.file[1])]

\* s * n for a string s
RECURSIVE Times(_, _)
Times(s, n) == IF n <= 0 THEN "" ELSE s \o Times(s, n - 1)

\* str of a sequence of one-character strings
RECURSIVE Str(_)
Str(cs) == IF cs = <<>> THEN "" ELSE Head(cs) \o Str(Tail(cs))

\* cs.split(','): the list of the texts between the commas
RECURSIVE SplitFrom(_, _, _)
SplitFrom(cs, cur, acc) ==
  IF cs = <<>> THEN Append(acc, cur)
  ELSE IF Head(cs) = "," THEN SplitFrom(Tail(cs), "", Append(acc, cur))
  ELSE SplitFrom(Tail(cs), cur \o Head(cs), acc)

Split(cs) == SplitFrom(cs, "", <<>>)

\* datetime.datetime.now().strftime(fmt) for a clock reading [sec, usec]
Strftime(now, fmt) ==
  IF fmt = "%Y-%m-%d %H:%M:%S.%f" THEN now.sec \o "." \o now.usec
  ELSE IF fmt = "%Y-%m-%d %H:%M:%S" THEN now.sec
  ELSE fmt

\* Dbg.__frame_depth with nframes frames on the stack (its own included)
RECURSIVE FrameDepthLoop(_, _)
FrameDepthLoop(dpth, nframes) ==
  IF dpth < nframes THEN FrameDepthLoop(dpth + 1, nframes) ELSE dpth - 1

frame_depth(less, nframes) == FrameDepthLoop(2 + less, nframes)

----------------------------------------------------------------------------
(* Formatter and filter. *)

\* Dbg.__format_line: the string handed to log_fp.write
format_line(o, dlvl, txt, fr, now) ==
  LET hdr1 == IF o.date_n_time
              THEN Strftime(now, o.hdr_date_format) \o " " \o LevelName(dlvl)
              ELSE ""
      func == IF fr.func = "<module>" THEN "__main__:" ELSE fr.func \o "():"
      hdr2 == IF o.file_n_line
              THEN hdr1 \o (IF o.date_n_time THEN " " ELSE "")
                        \o FileName(fr) \o ":" \o func \o ToString(fr.ln)
              ELSE hdr1
      hdr  == IF o.file_n_line \/ o.date_n_time THEN "[" \o hdr2 \o "] " ELSE hdr2
  IN  hdr \o txt \o "\n"

\* the function allow-list loop of __filter: TRUE when func is one of the names
FuncListed(func, cs) == \E n \in 1..Len(Split(cs)) : Split(cs)[n] = func

\* Dbg.__filter: TRUE when the line is to be dropped
filter(o, fr) ==
  IF o.fnm # None /\ FileName(fr) # o.fnm[1] THEN TRUE
  ELSE IF o.func # None THEN ~FuncListed(fr.func, o.func[1])
  ELSE IF o.ln_beg # None /\ fr.ln < o.ln_beg[1] THEN TRUE
  ELSE IF o.ln_end # None /\ fr.ln > o.ln_end[1] THEN TRUE
  ELSE FALSE

----------------------------------------------------------------------------
(* The sink writer.  A call's outcome is [raised, con, log]: the exception *)
(* it ends with ("" for none), the strings written to sys.stdout and the   *)
(* writes made to the log file object.                                     *)

Quiet == [raised |-> "", con |-> <<>>, log |-> <<>>]

\* Dbg.__print called from a method called by frame fr; dpth is the optional argument
print(o, dlvl, txt, dpth, fr, now) ==
  IF filter(o, fr) THEN Quiet
  ELSE IF o.log_fp # None /\ fps[o.log_fp[1]].state = "closed"
    THEN [Quiet EXCEPT !.raised = "ValueError"]    \* write on a closed file
  ELSE IF o.log_fp # None /\ o.date_n_time /\ ~HasLevelValue(dlvl)
    THEN [Quiet EXCEPT !.raised = "ValueError"]    \* index() of an unknown level
  ELSE
    LET ws_dpth == IF dpth # None THEN dpth[1] - 2
                   ELSE frame_depth(0, fr.depth + 3) - 3
        ws == IF o.trc /\ ~o.log_only THEN Times("  ", ws_dpth) ELSE ""
    IN  [ raised |-> "",
          con |-> IF ~o.log_only THEN << ws \o txt \o "\n" >> ELSE <<>>,
          log |-> IF o.log_fp # None
                  THEN << [fp |-> o.log_fp[1],
                           line |-> format_line(o, dlvl, txt, fr, now)] >>
                  ELSE <<>> ]

\* the body shared by any, out, err, wrn, inf, dbg, db2 and log
level_call(o, L, txt, fr, now) ==
  IF o.dlvl >= L THEN print(o, L, txt, None, fr, now) ELSE Quiet

----------------------------------------------------------------------------
(* Calls.  NoCall is the shape of the call record. *)

NoFrame == [file |-> None, func |-> "", ln |-> 0, depth |-> 0]

NoCall ==
  [ op |-> "", inst |-> "", raised |-> "", lvl |-> 0, txt |-> "",
    fr |-> NoFrame, arg |-> <<>>, pre |-> <<>> ]

Built(i) == obj[i] # <<>>
O(i) == obj[i][1]

\* the outcome r of a call becomes the observable output
Emitted(r) ==
  /\ stdout' = r.con
  /\ logged' = r.log

Silent ==
  /\ stdout' = <<>>
  /\ logged' = <<>>

\* init_rejects testing log_only for being given instead of being True
init_rejects_given(log_only, log_file) == log_only # None /\ log_file = None

\* the test of __init__ that rejects log_only without a log file
init_rejects(log_only, log_file) == log_only = Some(TRUE) /\ log_file = None

\* Dbg.__init__
Dbg_init(i, lvl, trc, log_file, log_only, force_out, date_n_time, file_n_line, hdr_date_format, file_func_line, file_name, func_name, line_begin, line_end) ==
  /\ ~Built(i)
  /\ log_file # None => Len(fps) < MaxFiles
  /\ LET call == [NoCall EXCEPT !.op = "__init__", !.inst = i,
                    !.arg = <<lvl, log_file, log_only>>]
         opened == log_file # None
         fp == Len(fps) + 1
         self ==
           [ ClassAttrs EXCEPT
               !.dlvl = LevelValue(lvl),
               !.trc = trc,
               !.log_file = IF opened THEN log_file ELSE @,
               !.log_fp = IF opened THEN Some(fp) ELSE @,
               !.log_only = IF log_only # None THEN log_only[1] ELSE @,
               !.force_out = IF force_out # None THEN force_out[1] ELSE @,
               !.date_n_time = IF date_n_time # None THEN date_n_time[1] ELSE @,
               !.file_n_line = IF file_n_line # None THEN file_n_line[1] ELSE @,
               !.hdr_date_format =
                  IF hdr_date_format # None THEN hdr_date_format[1] ELSE @,
               !.file_func_line =
                  IF file_func_line # None THEN file_func_line[1] ELSE @,
               !.fnm = IF file_name # None THEN file_name ELSE @,
               !.func = IF func_name # None THEN func_name ELSE @,
               !.ln_beg = IF line_begin # None THEN line_begin ELSE @,
               !.ln_end = IF line_end # None THEN line_end ELSE @ ]
     IN
       IF ~HasLevel(lvl)
       THEN \* raised before anything is opened
            /\ last' = [call EXCEPT !.raised = "ValueError"]
            /\ UNCHANGED <<obj, fps>>
       ELSE
         /\ fps' = IF opened
                   THEN Append(fps, [state |-> "open", by |-> i,
                                     name |-> log_file[1]])
                   ELSE fps
         /\ IF init_rejects(log_only, log_file)
            THEN /\ last' = [call EXCEPT !.raised = "ValueError"]
                 /\ UNCHANGED obj
            ELSE /\ last' = call
                 /\ obj' = [obj EXCEPT ![i] = <<self>>]
  /\ Silent
  /\ UNCHANGED dmsgs

\* the call of one of the eight level methods, named op, of level L
LevelMethod(op, L, i, txt, fr, now) ==
  /\ Built(i)
  /\ LET r == level_call(O(i), L, txt, fr, now)
     IN  /\ Emitted(r)
         /\ last' = [NoCall EXCEPT !.op = op, !.inst = i, !.lvl = L, !.txt = txt,
                       !.fr = fr, !.raised = r.raised]
  /\ UNCHANGED <<obj, dmsgs, fps>>

any(i, txt, fr, now) == LevelMethod("any", ANY, i, txt, fr, now)
out(i, txt, fr, now) == LevelMethod("out", OUT, i, txt, fr, now)
err(i, txt, fr, now) == LevelMethod("err", ERR, i, txt, fr, now)
wrn(i, txt, fr, now) == LevelMethod("wrn", WRN, i, txt, fr, now)
inf(i, txt, fr, now) == LevelMethod("inf", INF, i, txt, fr, now)
dbg(i, txt, fr, now) == LevelMethod("dbg", DBG, i, txt, fr, now)
db2(i, txt, fr, now) == LevelMethod("db2", DB2, i, txt, fr, now)
log(i, txt, fr, now) == LevelMethod("log", LOG, i, txt, fr, now)

----------------------------------------------------------------------------
(* Setters and teardown. *)

Call(op, i) == [NoCall EXCEPT !.op = op, !.inst = i]

SetAttrs(i, o) ==
  /\ obj' = [obj EXCEPT ![i] = <<o>>]
  /\ Silent
  /\ UNCHANGED dmsgs

\* Dbg.setLvl: levels[slvl], KeyError for an unknown name
setLvl(i, slvl) ==
  /\ Built(i)
  /\ IF HasLevel(slvl)
     THEN /\ SetAttrs(i, [O(i) EXCEPT !.dlvl = LevelValue(slvl)])
          /\ last' = [Call("setLvl", i) EXCEPT !.arg = <<slvl>>]
     ELSE /\ last' = [Call("setLvl", i) EXCEPT !.arg = <<slvl>>, !.raised = "KeyError"]
          /\ Silent
          /\ UNCHANGED <<obj, dmsgs>>
  /\ UNCHANGED fps

\* Dbg.setDlvl
setDlvl(i, dlvl) ==
  /\ Built(i)
  /\ SetAttrs(i, [O(i) EXCEPT !.dlvl = dlvl])
  /\ last' = [Call("setDlvl", i) EXCEPT !.arg = <<dlvl>>]
  /\ UNCHANGED fps

\* Dbg.setTrc
setTrc(i, on) ==
  /\ Built(i)
  /\ SetAttrs(i, [O(i) EXCEPT !.trc = on])
  /\ last' = [Call("setTrc", i) EXCEPT !.arg = <<on>>]
  /\ UNCHANGED fps

\* Dbg.setLogFile: opens the file; the attribute is rebound, nothing is closed
setLogFile(i, log_file) ==
  /\ Built(i)
  /\ Len(fps) < MaxFiles
  /\ fps' = Append(fps, [state |-> "open", by |-> i, name |-> log_file])
  /\ SetAttrs(i, [O(i) EXCEPT !.log_file = Some(log_file),
                              !.log_fp = Some(Len(fps) + 1)])
  /\ last' = [Call("setLogFile", i) EXCEPT !.arg = <<log_file>>]

\* file.close(): closing a closed file does nothing
Close(files, h) == [files EXCEPT ![h].state = "closed"]

\* Dbg.setLogFp.  log_fp is None, a file object that exists (Some(h), h <= Len(fps))
\* or one the caller has just opened (Some(Len(fps) + 1)).
setLogFp(i, log_fp) ==
  /\ Built(i)
  /\ log_fp # None => log_fp[1] \in 1..(Len(fps) + 1) /\ log_fp[1] <= MaxFiles
  /\ LET given == IF log_fp # None /\ log_fp[1] > Len(fps)
                  THEN Append(fps, [state |-> "open", by |-> "caller", name |-> "ext.log"])
                  ELSE fps
     IN  fps' = IF O(i).log_fp # None THEN Close(given, O(i).log_fp[1]) ELSE given
  /\ SetAttrs(i, [O(i) EXCEPT !.log_fp = log_fp])
  /\ last' = [Call("setLogFp", i) EXCEPT !.arg = <<log_fp>>]

\* Dbg.setLogOnly
setLogOnly(i, log_only) ==
  /\ Built(i)
  /\ SetAttrs(i, [O(i) EXCEPT !.log_only = log_only])
  /\ last' = [Call("setLogOnly", i) EXCEPT !.arg = <<log_only>>]
  /\ UNCHANGED fps

\* Dbg.setForceOut
setForceOut(i, force_out) ==
  /\ Built(i)
  /\ SetAttrs(i, [O(i) EXCEPT !.force_out = force_out])
  /\ last' = [Call("setForceOut", i) EXCEPT !.arg = <<force_out>>]
  /\ UNCHANGED fps

\* Dbg.setDateNTime
setDateNTime(i, date_n_time) ==
  /\ Built(i)
  /\ SetAttrs(i, [O(i) EXCEPT !.date_n_time = date_n_time])
  /\ last' = [Call("setDateNTime", i) EXCEPT !.arg = <<date_n_time>>]
  /\ UNCHANGED fps

\* Dbg.setFileNLine
setFileNLine(i, file_n_line) ==
  /\ Built(i)
  /\ SetAttrs(i, [O(i) EXCEPT !.file_n_line = file_n_line])
  /\ last' = [Call("setFileNLine", i) EXCEPT !.arg = <<file_n_line>>]
  /\ UNCHANGED fps

\* Dbg.setHdrDateFormat
setHdrDateFormat(i, hdr_date_format) ==
  /\ Built(i)
  /\ SetAttrs(i, [O(i) EXCEPT !.hdr_date_format = hdr_date_format])
  /\ last' = [Call("setHdrDateFormat", i) EXCEPT !.arg = <<hdr_date_format>>]
  /\ UNCHANGED fps

\* Dbg.__exit__: closes the attached file object and keeps the attribute
Dbg_exit(i) ==
  /\ Built(i)
  /\ fps' = IF O(i).log_fp # None THEN Close(fps, O(i).log_fp[1]) ELSE fps
  /\ last' = Call("__exit__", i)
  /\ Silent
  /\ UNCHANGED <<obj, dmsgs>>

----------------------------------------------------------------------------
(* The recorder. *)

\* Dbg.msg: appends to the list that self.dmsgs resolves to, the class's
msg(i, dlvl, txt, fr) ==
  /\ Built(i)
  /\ Len(dmsgs) < MaxMsgs
  /\ LET call == [Call("msg", i) EXCEPT !.lvl = dlvl, !.txt = txt, !.fr = fr,
                    !.pre = dmsgs]
         mobj == [ lvl |-> LevelName(dlvl), fnm |-> FileName(fr), func |-> fr.func,
                   ln |-> fr.ln, txt |-> txt, dlvl |-> dlvl,
                   dpth |-> frame_depth(1, fr.depth + 2) ]
     IN  IF dlvl < ANY \/ dlvl > LOG
         THEN /\ last' = [call EXCEPT !.raised = "ValueError"]
              /\ UNCHANGED dmsgs
         ELSE /\ last' = call
              /\ dmsgs' = Append(dmsgs, mobj)
  /\ Silent
  /\ UNCHANGED <<obj, fps>>

\* the overrides of msgs: the tests that skip a message in its loop
Skipped(m, dlvl, fnm, func, ln_beg, ln_end) ==
  \/ dlvl # None /\ m.dlvl > dlvl[1]
  \/ fnm # None /\ m.fnm # fnm[1]
  \/ func # None /\ m.func # Str(func[1])
  \/ ln_beg # None /\ m.ln < ln_beg[1]
  \/ ln_end # None /\ m.ln >= ln_end[1]

\* MsgText with the sense of ffl inverted
MsgText_inverted(m, ffl) ==
  IF ~ffl
  THEN m.fnm \o ":" \o m.func \o "():" \o ToString(m.ln) \o
       "(" \o ToString(m.dpth) \o ") " \o m.lvl \o " " \o m.txt
  ELSE m.txt

\* the text msgs prints for a message
MsgText(m, ffl) ==
  IF ffl
  THEN m.fnm \o ":" \o m.func \o "():" \o ToString(m.ln) \o
       "(" \o ToString(m.dpth) \o ") " \o m.lvl \o " " \o m.txt
  ELSE m.txt

\* the __print calls of msgs made in order, up to the first that raises
RECURSIVE RunPrints(_, _)
RunPrints(rs, acc) ==
  IF rs = <<>> THEN acc
  ELSE IF Head(rs).raised # "" THEN [acc EXCEPT !.raised = Head(rs).raised]
  ELSE RunPrints(Tail(rs), [acc EXCEPT !.con = @ \o Head(rs).con,
                                       !.log = @ \o Head(rs).log])

\* outcome of Dbg.msgs on the list ms
msgs_run(o, ms, banner, dlvl, fnm, func, ln_beg, ln_end, ffl, fr, now) ==
  LET f == IF ffl = None THEN o.file_func_line ELSE ffl[1]
      shown == SelectSeq(ms, LAMBDA m : ~Skipped(m, dlvl, fnm, func, ln_beg, ln_end))
      head == IF banner # None /\ banner[1] # ""
              THEN << print(o, OUT, banner[1], None, fr, now) >>
              ELSE <<>>
      body == [ n \in 1..Len(shown) |->
                  print(o, IF dlvl # None THEN dlvl[1] ELSE shown[n].dlvl,
                        MsgText(shown[n], f), Some(shown[n].dpth), fr, now) ]
  IN  RunPrints(head \o body, Quiet)

\* Dbg.msgs.  ovr = [dlvl, fnm, func, ln_beg, ln_end, ffl], each optional
msgs(i, banner, ovr, clear, fr, now) ==
  /\ Built(i)
  /\ LET r == msgs_run(O(i), dmsgs, banner, ovr.dlvl, ovr.fnm, ovr.func,
                       ovr.ln_beg, ovr.ln_end, ovr.ffl, fr, now)
     IN  /\ Emitted(r)
         /\ last' = [Call("msgs", i) EXCEPT !.fr = fr, !.raised = r.raised,
                       !.arg = <<banner, ovr, clear>>, !.pre = dmsgs]
         /\ dmsgs' = IF r.raised = "" /\ clear THEN <<>> ELSE dmsgs
  /\ UNCHANGED <<obj, fps>>

\* Dbg.errs
errs(i) ==
  /\ Built(i)
  /\ last' = [Call("errs", i) EXCEPT !.arg = <<Len(dmsgs) > 0>>, !.pre = dmsgs]
  /\ Silent
  /\ UNCHANGED <<obj, dmsgs, fps>>

\* Dbg.clr
clr(i) ==
  /\ Built(i)
  /\ dmsgs' = <<>>
  /\ last' = [Call("clr", i) EXCEPT !.pre = dmsgs]
  /\ Silent
  /\ UNCHANGED <<obj, fps>>

----------------------------------------------------------------------------
(* Inputs explored. *)

Inst == {"A", "B"}

FrF == [file |-> Some(<<"src", "x">>), func |-> "f", ln |-> 42, depth |-> 2]
FrF2 == [file |-> Some(<<"src", "x">>), func |-> "f", ln |-> 41, depth |-> 2]
FrG == [file |-> Some(<<"src", "x">>), func |-> "g", ln |-> 43, depth |-> 3]
FrM == [file |-> Some(<<"src", "x">>), func |-> "<module>", ln |-> 7, depth |-> 1]
FrH == [file |-> Some(<<"lib", "y">>), func |-> "h", ln |-> 42, depth |-> 3]
FrN == [file |-> None, func |-> "h", ln |-> 44, depth |-> 2]

Clock == { [sec |-> "2026-01-02 03:04:05", usec |-> "000006"] }

NoOvr == [dlvl |-> None, fnm |-> None, func |-> None, ln_beg |-> None,
          ln_end |-> None, ffl |-> None]

Init ==
  /\ obj = [i \in Inst |-> <<>>]
  /\ dmsgs = <<>>
  /\ fps = <<>>
  /\ stdout = <<>>
  /\ logged = <<>>
  /\ last = NoCall

----------------------------------------------------------------------------
(* Spec: one instance, the level methods, the sinks and teardown. *)

LiveFrames == {FrF, FrM, FrH}

LiveInit ==
  \E lvl \in {"none", "out", "err", "dbg", "log", "verbose"}, trc \in BOOLEAN,
     log_file \in {None, Some("app.log")},
     log_only \in {None, Some(TRUE), Some(FALSE)},
     force_out \in {None, Some(FALSE)}, date_n_time \in {None, Some(FALSE)},
     file_n_line \in {None, Some(FALSE)},
     func_name \in {None, Some(<<"f", ",", "g">>)} :
    Dbg_init("A", lvl, trc, log_file, log_only, force_out, date_n_time, file_n_line,
             None, None, None, func_name, None, None)

Next ==
  \/ LiveInit
  \/ \E fr \in LiveFrames, now \in Clock : any("A", "boom", fr, now)
  \/ \E fr \in LiveFrames, now \in Clock : out("A", "boom", fr, now)
  \/ \E fr \in LiveFrames, now \in Clock : err("A", "boom", fr, now)
  \/ \E fr \in LiveFrames, now \in Clock : wrn("A", "boom", fr, now)
  \/ \E fr \in LiveFrames, now \in Clock : inf("A", "boom", fr, now)
  \/ \E fr \in LiveFrames, now \in Clock : dbg("A", "boom", fr, now)
  \/ \E fr \in LiveFrames, now \in Clock : db2("A", "boom", fr, now)
  \/ \E fr \in LiveFrames, now \in Clock : log("A", "boom", fr, now)
  \/ \E slvl \in {"wrn", "inf", "loud"} : setLvl("A", slvl)
  \/ \E b \in BOOLEAN : setLogOnly("A", b)
  \/ \E b \in BOOLEAN : setForceOut("A", b)
  \/ Dbg_exit("A")

Spec == Init /\ [][Next]_vars

----------------------------------------------------------------------------
(* Properties of the level methods and the sinks, stated for Spec. *)

LevelOps == {"any", "out", "err", "wrn", "inf", "dbg", "db2", "log"}

LevelNames ==
  {"none", "any", "out", "err", "wrn", "inf", "dbg", "db2", "idb", "log"}

\* C1: level gating of the eight level methods.  A call of level L under
\* threshold T writes to a sink only if T >= L; when L > T it writes nothing
\* and changes no state; when T >= L and the call site is not filtered out
\* the message is written (to the console or to the log file).
C1_LevelGating ==
  [][ last'.op \in LevelOps =>
        LET o == O(last'.inst)
            T == o.dlvl
            L == last'.lvl
            wrote == stdout' # <<>> \/ logged' # <<>>
        IN  /\ wrote => T >= L
            /\ L > T => ~wrote /\ UNCHANGED <<obj, dmsgs, fps>>
            /\ (T >= L /\ ~filter(o, last'.fr)) => wrote ]_vars

\* C4: sink routing.  A message that passes the level gate and the filter is
\* appended as exactly one line to the log file iff a log file is attached,
\* and written as exactly one line to the console iff log_only is false.
C4_SinkRouting ==
  (last.op \in LevelOps /\ O(last.inst).dlvl >= last.lvl
     /\ ~filter(O(last.inst), last.fr)) =>
    /\ Len(logged) = (IF O(last.inst).log_fp # None THEN 1 ELSE 0)
    /\ Len(stdout) = (IF O(last.inst).log_only THEN 0 ELSE 1)

\* C5: force_out.  With force_out set, a line of out() that passes the level
\* gate and the filter is displayed on the console even in log_only mode,
\* while the lines of the other level methods stay off the console in
\* log_only mode.
C5_ForceOut ==
  (last.op \in LevelOps /\ O(last.inst).dlvl >= last.lvl
     /\ ~filter(O(last.inst), last.fr)
     /\ O(last.inst).log_only /\ O(last.inst).force_out) =>
    IF last.op = "out" THEN Len(stdout) = 1 ELSE last.lvl > OUT => stdout = <<>>

\* C6: construction errors.  Constructing with a level name outside the level
\* table, or with log_only=True and no log file, raises ValueError, yields no
\* instance and leaves no file opened by the constructor open; any other
\* construction succeeds.
C6_ConstructionErrors ==
  last.op = "__init__" =>
    LET lvl == last.arg[1]
        log_file == last.arg[2]
        log_only == last.arg[3]
        bad == lvl \notin LevelNames \/ (log_only = Some(TRUE) /\ log_file = None)
    IN  IF bad
        THEN /\ last.raised = "ValueError"
             /\ ~Built(last.inst)
             /\ \A h \in 1..Len(fps) : fps[h].by = last.inst => fps[h].state = "closed"
        ELSE /\ last.raised = ""
             /\ Built(last.inst)
             /\ O(last.inst).dlvl \in -1..7

\* a construction with log_only=True and no log file has just been refused
C6_Witness ==
  /\ last.op = "__init__"
  /\ last.arg[1] \in LevelNames
  /\ last.arg[2] = None
  /\ last.arg[3] = Some(TRUE)
  /\ last.raised = "ValueError"

\* the header the claim C10 gives for a call from frame fr
C10_Header(o, fr) ==
  IF o.file_n_line
  THEN "[" \o FileName(fr) \o ":" \o fr.func \o "():" \o ToString(fr.ln) \o "] "
  ELSE ""

\* C10: output line header.  With show_date_time off, every line a level
\* method writes, to each sink, is the header followed by the text: no header
\* when show_file_line is off, "[<file>:<func>():<line>] " when it is on.
C10_LineHeader ==
  (last.op \in LevelOps /\ ~O(last.inst).date_n_time) =>
    LET line == C10_Header(O(last.inst), last.fr) \o last.txt \o "\n"
    IN  /\ \A n \in 1..Len(stdout) : stdout[n] = line
        /\ \A n \in 1..Len(logged) : logged[n].line = line

----------------------------------------------------------------------------
(* SpecFilter: the live filter over file, function and line filters. *)

FilterFrames == {FrF, FrF2, FrG, FrM, FrH, FrN}

FilterInit ==
  \E file_name \in {None, Some("x")},
     func_name \in {None, Some(<<"f", ",", "g">>), Some(<<"h">>)},
     line_begin \in {None, Some(42)}, line_end \in {None, Some(42)} :
    Dbg_init("A", lvl_dflt, trc_dflt, None, None, None, None, None,
             None, None, file_name, func_name, line_begin, line_end)

NextFilter ==
  \/ FilterInit
  \/ \E fr \in FilterFrames, now \in Clock : err("A", "boom", fr, now)
  \/ \E fr \in FilterFrames, now \in Clock : wrn("A", "boom", fr, now)

SpecFilter == Init /\ [][NextFilter]_vars

\* the verdict the claim C2 gives: any of the three conditions suppresses
C2_Suppress(o, fr) ==
  \/ o.fnm # None /\ o.fnm[1] # FileName(fr)
  \/ o.func # None /\ fr.func \notin {Split(o.func[1])[n] : n \in 1..Len(Split(o.func[1]))}
  \/ o.ln_beg # None /\ fr.ln < o.ln_beg[1]
  \/ o.ln_end # None /\ fr.ln > o.ln_end[1]

\* C2: live filter verdict.  A level call that passes the level gate is
\* suppressed iff the file filter is set and differs from the call site's
\* file, or the function filter is set and does not list the call site's
\* function, or a line bound is set and the call site's line is outside
\* [begin, end]; each condition applies whatever the others yield.
C2_FilterVerdict ==
  (last.op \in LevelOps /\ O(last.inst).dlvl >= last.lvl /\ last.raised = ""
     /\ ~O(last.inst).log_only) =>
    (stdout = <<>> <=> C2_Suppress(O(last.inst), last.fr))

----------------------------------------------------------------------------
(* SpecRec: the recorder, one instance. *)

RecFrames == {FrF, FrM}

RecInit ==
  \E trc \in BOOLEAN, log_file \in {None, Some("app.log")},
     func_name \in {None, Some(<<"f", ",", "g">>)},
     file_func_line \in {None, Some(TRUE)} :
    Dbg_init("A", lvl_dflt, trc, log_file, None, None, None, None,
             None, file_func_line, None, func_name, None, None)

RecOvrs ==
  { NoOvr,
    [NoOvr EXCEPT !.func = Some(<<"f", ",", "g">>)],
    [NoOvr EXCEPT !.func = Some(<<>>)],
    [NoOvr EXCEPT !.ln_beg = Some(7), !.ln_end = Some(42)],
    [NoOvr EXCEPT !.dlvl = Some(ERR), !.fnm = Some("x"), !.ffl = Some(TRUE)] }

NextRec ==
  \/ RecInit
  \/ \E m \in {<<ERR, "m1">>, <<DBG, "m2">>, <<8, "m1">>}, fr \in RecFrames :
       msg("A", m[1], m[2], fr)
  \/ \E banner \in {None, Some("banner")}, ovr \in RecOvrs, clear \in BOOLEAN,
        fr \in RecFrames, now \in Clock :
       msgs("A", banner, ovr, clear, fr, now)
  \/ errs("A")
  \/ clr("A")

SpecRec == Init /\ [][NextRec]_vars

\* the last call is a drain without banner or overrides of a list holding one
\* message of a level that has a level method, file_func_line being off
C3_RecordDrain ==
  /\ last.op = "msgs"
  /\ last.arg[1] = None
  /\ last.arg[2] = NoOvr
  /\ Len(last.pre) = 1
  /\ last.pre[1].dlvl \in {ANY, OUT, ERR, WRN, INF, DBG, DB2, LOG}
  /\ ~O(last.inst).file_func_line

\* the last call had the outcome r
Outcome(r) == last.raised = r.raised /\ stdout = r.con /\ logged = r.log

C9_Dropped(m, fnm, func, ln_beg, ln_end) ==
  \/ fnm # None /\ m.fnm # fnm[1]
  \/ /\ func # None
     /\ func[1] # <<>>
     /\ m.func \notin {Split(func[1])[n] : n \in 1..Len(Split(func[1]))}
  \/ ln_beg # None /\ m.ln < ln_beg[1]
  \/ ln_end # None /\ m.ln >= ln_end[1]

\* C9: drain postcondition.  msgs writes, in insertion order and once each,
\* exactly the buffered messages that survive the filter (the overrides when
\* given, else the ambient Config, against each message's own call site; the
\* function override a comma-delimited allow-list that an empty value
\* disables; the line range end-exclusive); afterwards the buffer is empty,
\* or unchanged when clr=False.
C9_DrainPostcondition ==
  last.op = "msgs" =>
    LET o == O(last.inst)
        banner == last.arg[1]
        ovr == last.arg[2]
        given == \/ ovr.dlvl # None \/ ovr.fnm # None \/ ovr.func # None
                 \/ ovr.ln_beg # None \/ ovr.ln_end # None
        keep(m) ==
          IF given
          THEN /\ ovr.dlvl # None => m.dlvl <= ovr.dlvl[1]
               /\ ~C9_Dropped(m, ovr.fnm, ovr.func, ovr.ln_beg, ovr.ln_end)
          ELSE ~C9_Dropped(m, o.fnm, o.func, o.ln_beg, o.ln_end)
        shown == SelectSeq(last.pre, keep)
        f == IF ovr.ffl = None THEN o.file_func_line ELSE ovr.ffl[1]
        nb == IF banner = None THEN 0 ELSE 1
        ws(m) == IF o.trc THEN Times("  ", m.dpth - 2) ELSE ""
    IN  /\ ~o.log_only =>
             /\ Len(stdout) = nb + Len(shown)
             /\ \A n \in 1..Len(shown) :
                  stdout[nb + n] = ws(shown[n]) \o MsgText(shown[n], f) \o "\n"
        /\ o.log_fp # None => Len(logged) = nb + Len(shown)
        /\ dmsgs = IF last.arg[3] THEN <<>> ELSE last.pre

----------------------------------------------------------------------------
(* SpecTwo: two instances. *)

NextTwo ==
  \/ \E i \in Inst, log_only \in {None, Some(FALSE)} :
       Dbg_init(i, lvl_dflt, trc_dflt, None, log_only, None, None, None,
                None, None, None, None, None, None)
  \/ \E i \in Inst, txt \in {"m1", "m2"} : msg(i, ERR, txt, FrF)
  \/ \E i \in Inst, clear \in BOOLEAN, now \in Clock :
       msgs(i, None, NoOvr, clear, FrF, now)
  \/ \E i \in Inst : errs(i)
  \/ \E i \in Inst : clr(i)
  \/ \E i \in Inst, slvl \in {"dbg", "err"} : setLvl(i, slvl)
  \/ \E i \in Inst, b \in BOOLEAN : setTrc(i, b)
  \/ \E i \in Inst, b \in BOOLEAN : setDateNTime(i, b)

SpecTwo == Init /\ [][NextTwo]_vars

\* self.dmsgs of instance i: no method binds the attribute on the instance
dmsgs_of(i) == dmsgs

\* C8: per-instance ownership.  For distinct instances i and j, record, clear
\* and drain on i leave j's buffered messages unchanged, and a setter on i
\* leaves every attribute of j unchanged.
C8_InstanceOwnership ==
  [][ \A i, j \in Inst :
        (i # j /\ last'.inst = i /\ Built(j)) =>
          /\ last'.op \in {"msg", "clr", "msgs"} => dmsgs_of(j)' = dmsgs_of(j)
          /\ last'.op \in {"setLvl", "setTrc", "setDateNTime"} => obj'[j] = obj[j] ]_vars

----------------------------------------------------------------------------
(* SpecLife: the life of the log file objects. *)

NextLife ==
  \/ \E log_file \in {None, Some("app.log")}, log_only \in {None, Some(TRUE)} :
       Dbg_init("A", "dbg", trc_dflt, log_file, log_only, None, None, None,
                None, None, None, None, None, None)
  \/ \E name \in {"app.log", "b.log"} : setLogFile("A", name)
  \/ \E h \in 1..MaxFiles : setLogFp("A", Some(h))
  \/ setLogFp("A", None)
  \/ \E b \in BOOLEAN : setLogOnly("A", b)
  \/ \E fr \in {FrF, FrM}, now \in Clock : err("A", "boom", fr, now)
  \/ \E fr \in {FrF, FrM}, now \in Clock : dbg("A", "boom", fr, now)
  \/ \E txt \in {"m1"} : msg("A", ERR, txt, FrF)
  \/ \E now \in Clock : msgs("A", None, NoOvr, TRUE, FrF, now)
  \/ Dbg_exit("A")

SpecLife == Init /\ [][NextLife]_vars

\* the last call attempted a write on a closed file object
WroteOnClosed ==
  /\ last.op \in LevelOps \cup {"msgs"}
  /\ last.raised = "ValueError"
  /\ O(last.inst).log_fp # None
  /\ fps[O(last.inst).log_fp[1]].state = "closed"

\* C7: log file handle lifecycle.  Every file object the logger opens stays
\* attached until it is closed (none is dropped while open), every one of
\* them is closed once teardown (__exit__) has run, and no write is attempted
\* on a file object that is closed.
C7_HandleLifecycle ==
  /\ \A h \in 1..Len(fps) :
       (fps[h].by \in Inst /\ fps[h].state = "open") =>
         \E i \in Inst : Built(i) /\ O(i).log_fp = Some(h)
  /\ last.op = "__exit__" =>
       \A h \in 1..Len(fps) : fps[h].by = last.inst => fps[h].state = "closed"
  /\ ~WroteOnClosed

----------------------------------------------------------------------------
(* The trace helper. *)

\* the text ln that __enter and __leave build
trace_line(kind, txt, fr) ==
  IF kind = "enter"
  THEN fr.func \o "(" \o txt \o ") {"
  ELSE "} # " \o fr.func \o ":" \o ToString(fr.ln) \o " " \o txt

\* Dbg.__enter and Dbg.__leave, reached through enter and leave from frame fr:
\* the console is written before the log file
trace_call(o, kind, txt, fr, now) ==
  IF ~o.trc THEN Quiet
  ELSE IF filter(o, fr) THEN Quiet
  ELSE
    LET dpth == frame_depth(0, fr.depth + 3)
        ws == Times("  ", dpth - 4)
        ln == trace_line(kind, txt, fr)
        con == IF ~o.log_only THEN << ws \o ln \o "\n" >> ELSE <<>>
    IN  IF o.log_fp # None /\ fps[o.log_fp[1]].state = "closed"
        THEN [raised |-> "ValueError", con |-> con, log |-> <<>>]
        ELSE [ raised |-> "", con |-> con,
               log |-> IF o.log_fp # None
                       THEN << [fp |-> o.log_fp[1],
                                line |-> format_line(o, DBG, ln, fr, now)] >>
                       ELSE <<>> ]

TraceMethod(op, i, txt, fr, now) ==
  /\ Built(i)
  /\ LET r == trace_call(O(i), op, txt, fr, now)
     IN  /\ Emitted(r)
         /\ last' = [Call(op, i) EXCEPT !.txt = txt, !.fr = fr, !.raised = r.raised]
  /\ UNCHANGED <<obj, dmsgs, fps>>

\* Dbg.enter
enter(i, txt, fr, now) == TraceMethod("enter", i, txt, fr, now)

\* Dbg.leave
leave(i, txt, fr, now) == TraceMethod("leave", i, txt, fr, now)

(* SpecTrace: enter and leave, one instance. *)

TraceFrames == {FrF, FrG, FrH}

NextTrace ==
  \/ \E trc \in BOOLEAN, log_file \in {None, Some("app.log")},
        log_only \in {None, Some(TRUE)}, func_name \in {None, Some(<<"f", ",", "g">>)} :
       Dbg_init("A", "dbg", trc, log_file, log_only, None, None, None,
                None, None, None, func_name, None, None)
  \/ \E fr \in TraceFrames, now \in Clock : enter("A", "x", fr, now)
  \/ \E fr \in TraceFrames, now \in Clock : leave("A", "y", fr, now)
  \/ \E b \in BOOLEAN : setTrc("A", b)
  \/ msg("A", ERR, "m1", FrF)
  \/ clr("A")
  \/ Dbg_exit("A")

SpecTrace == Init /\ [][NextTrace]_vars

\* C11: trace enter/leave.  enter and leave write nothing when trace is off or
\* the call site is filtered out; otherwise each writes exactly one line to
\* the console unless log_only is set and one line to the log file unless none
\* is attached; they never change the attributes, the files or the recorder
\* buffer.  An enter followed by a leave from the same function at the same
\* depth gives two console lines with the same indentation of two spaces per
\* unit, the first ending in "{" and the second beginning with "}".
C11_TraceEnterLeave ==
  [][ /\ last'.op \in {"enter", "leave"} =>
           /\ UNCHANGED <<obj, dmsgs, fps>>
           /\ IF ~O(last'.inst).trc \/ filter(O(last'.inst), last'.fr)
              THEN stdout' = <<>> /\ logged' = <<>>
              ELSE /\ Len(stdout') = (IF O(last'.inst).log_only THEN 0 ELSE 1)
                   /\ Len(logged') = (IF O(last'.inst).log_fp = None THEN 0 ELSE 1)
      /\ ( /\ last.op = "enter" /\ last'.op = "leave"
           /\ last.inst = last'.inst
           /\ last.fr.func = last'.fr.func /\ last.fr.depth = last'.fr.depth
           /\ Len(stdout) = 1 /\ Len(stdout') = 1 ) =>
           \E k \in 0..last.fr.depth :
             /\ stdout[1] = Times("  ", k) \o last.fr.func \o "(" \o last.txt \o ") {\n"
             /\ stdout'[1] = Times("  ", k) \o "} # " \o last'.fr.func \o ":"
                               \o ToString(last'.fr.ln) \o " " \o last'.txt \o "\n"
    ]_vars

----------------------------------------------------------------------------
(* SpecLvl: the threshold and its setters. *)

\* Dbg.getLvl: the name of the threshold, ValueError when no name has its value
getLvl(i) ==
  /\ Built(i)
  /\ last' = IF HasLevelValue(O(i).dlvl)
             THEN [Call("getLvl", i) EXCEPT !.arg = <<LevelName(O(i).dlvl)>>]
             ELSE [Call("getLvl", i) EXCEPT !.raised = "ValueError"]
  /\ Silent
  /\ UNCHANGED <<obj, dmsgs, fps>>

NextLvl ==
  \/ \E lvl \in LevelNames \cup {"verbose"} :
       Dbg_init("A", lvl, trc_dflt, None, None, None, None, None,
                None, None, None, None, None, None)
  \/ \E slvl \in LevelNames \cup {"verbose", "DBG"} : setLvl("A", slvl)
  \/ \E dlvl \in -2..9 : setDlvl("A", dlvl)
  \/ getLvl("A")
  \/ \E fr \in {FrF, FrM}, now \in Clock : inf("A", "boom", fr, now)
  \/ \E fr \in {FrF, FrM}, now \in Clock : log("A", "boom", fr, now)

SpecLvl == Init /\ [][NextLvl]_vars

\* C12: threshold validity.  After construction and any level-setting calls
\* the threshold is in -1..7; a level-setting call given an unrecognized level
\* raises and leaves the threshold unchanged; getLvl never fails.
C12_ThresholdValid ==
  [][ /\ \A i \in Inst : Built(i)' => O(i)'.dlvl \in -1..7
      /\ (last'.op = "setLvl" /\ last'.arg[1] \notin LevelNames) =>
           last'.raised # "" /\ obj' = obj
      /\ (last'.op = "setDlvl" /\ last'.arg[1] \notin -1..7) =>
           last'.raised # "" /\ obj' = obj
      /\ last'.op = "getLvl" => last'.raised = ""
    ]_vars

----------------------------------------------------------------------------
(* log_only and the log file, stated for SpecLife. *)

\* C13: on a constructed instance, whatever setters were called, log_only set
\* implies that a log file object is attached, so a level call that passes
\* the level gate and the filter is written to the console or to the log file.
C13_LogOnlyHasFile ==
  /\ \A i \in Inst : (Built(i) /\ O(i).log_only) => O(i).log_fp # None
  /\ ( /\ last.op \in LevelOps
       /\ last.raised = ""
       /\ O(last.inst).dlvl >= last.lvl
       /\ ~filter(O(last.inst), last.fr) ) =>
       (stdout # <<>> \/ logged # <<>>)

====
